---- MODULE Spec2Model ----
(***************************************************************************)
(* Chromatic polynomial of a graph, src/src/sage/graphs/chrompoly.pyx.     *)
(*                                                                         *)
(* The model runs the module's own cross-check (the doctest of lines       *)
(* 106-112) on every small graph: c = chromatic_polynomial(G, 'C'), then   *)
(* p = chromatic_polynomial(G, 'Python'), then c == p.  The C variant is   *)
(* the orchestrator of lines 139-148, the breadth first search with the    *)
(* sorted chord list, contract_and_count (one stack frame per call) and    *)
(* the assembly of the coefficients; the Python variant is the stack       *)
(* machine of chromatic_polynomial_with_cache.                             *)
(*                                                                         *)
(* A graph is [V |-> vertices, E |-> edges]; an edge is the set of its two *)
(* ends, a loop the set of its one end.  A polynomial of ZZ['x'] is the    *)
(* sequence of its coefficients from degree 0 up, without trailing zeros;  *)
(* the zero polynomial is << >>.  A chord list (chords1, chords2) is the   *)
(* sequence of the pairs <<chords1[i], chords2[i]>>.                       *)
(***************************************************************************)
EXTENDS Integers, Sequences, FiniteSets, TLC

\* Bounds of the model.
MaxN == 4
MaxLoops == 1
MaxPick == 2
MaxColours == 3

VARIABLES
    G,        \* the graph under test
    pc,       \* the position of the run
    c,        \* the result of algorithm 'C'
    p,        \* the result of algorithm 'Python'
    err,      \* the exception that reached the caller, or "none"
    callstk,  \* the pending products of line 145: [q: components left, f: factors]
    cur,      \* the relabelled graph of the running C computation
    loc,      \* its locals: bfs_reorder, parent, queue, bot, v, nbrs, next_v, chords
    frames,   \* the calls of contract_and_count: [chords, nverts, i]
    tot,      \* the histogram
    live,     \* the indices i with tot[i] initialised and not cleared
    asm,      \* the locals of the assembly: [i, m, coeffs]
    D,        \* the vertices of the digraph D with their values
    Dedges,   \* the edges of D
    cache,    \* the cache, a function from keys to polynomials
    stack,    \* the stack of chromatic_polynomial_with_cache
    log       \* history: the subgraphs resolved by a branch other than the cache hit

vars == <<G, pc, c, p, err, callstk, cur, loc, frames, tot, live, asm,
          D, Dedges, cache, stack, log>>

----------------------------------------------------------------------------
\* Integers and sequences

Min(S) == CHOOSE x \in S : \A y \in S : x <= y

RECURSIVE SeqSum(_)
SeqSum(s) == IF s = << >> THEN 0 ELSE Head(s) + SeqSum(Tail(s))

RECURSIVE Pow(_, _)
Pow(b, e) == IF e = 0 THEN 1 ELSE b * Pow(b, e - 1)

\* s with x put at position i (1-based), the rest shifted
Swap(s, i, j) == [s EXCEPT ![i] = s[j], ![j] = s[i]]

----------------------------------------------------------------------------
\* ZZ['x']

PolyZero == << >>
PolyOne == <<1>>
PolyX == <<0, 1>>

RECURSIVE PolyNorm(_)
PolyNorm(s) ==
    IF s = << >> THEN << >>
    ELSE IF s[Len(s)] = 0 THEN PolyNorm(SubSeq(s, 1, Len(s) - 1))
    ELSE s

PolyCoeff(a, i) == IF i \in 1..Len(a) THEN a[i] ELSE 0

PolySub(a, b) ==
    LET n == IF Len(a) > Len(b) THEN Len(a) ELSE Len(b)
    IN  PolyNorm([i \in 1..n |-> PolyCoeff(a, i) - PolyCoeff(b, i)])

PolyMul(a, b) ==
    IF a = << >> \/ b = << >> THEN << >>
    ELSE PolyNorm([k \in 1..(Len(a) + Len(b) - 1) |->
            SeqSum([i \in 1..Len(a) |-> a[i] * PolyCoeff(b, k - i + 1)])])

RECURSIVE PolyProd(_)
PolyProd(fs) == IF fs = << >> THEN PolyOne ELSE PolyMul(Head(fs), PolyProd(Tail(fs)))

RECURSIVE PolyPow(_, _)
PolyPow(a, e) == IF e = 0 THEN PolyOne ELSE PolyMul(a, PolyPow(a, e - 1))

\* x * (x - 1) ** (n - 1)
TreePoly(n) == PolyMul(PolyX, PolyPow(<<-1, 1>>, n - 1))

PolyEval(a, k) == SeqSum([i \in 1..Len(a) |-> a[i] * Pow(k, i - 1)])

----------------------------------------------------------------------------
\* Graphs

NoGraph == [V |-> {}, E |-> {}]

Order(g) == Cardinality(g.V)
Size(g) == Cardinality(g.E)

HasLoops(g) == \E e \in g.E : Cardinality(e) = 1

RemoveLoops(g) == [g EXCEPT !.E = {e \in g.E : Cardinality(e) = 2}]

Neighbors(g, v) == {u \in g.V : {u, v} \in g.E}

RECURSIVE Reach(_, _)
Reach(g, S) ==
    LET T == S \cup UNION {Neighbors(g, v) : v \in S}
    IN  IF T = S THEN S ELSE Reach(g, T)

IsConnected(g) == g.V = {} \/ Reach(g, {Min(g.V)}) = g.V

Subgraph(g, S) == [V |-> S, E |-> {e \in g.E : e \subseteq S}]

\* the components, by least vertex
RECURSIVE ComponentsOf(_, _)
ComponentsOf(g, left) ==
    IF left = {} THEN << >>
    ELSE LET S == Reach(g, {Min(left)})
         IN  <<Subgraph(g, S)>> \o ComponentsOf(g, left \ S)

ConnectedComponentsSubgraphs(g) == ComponentsOf(g, g.V)

IsTree(g) == g.V # {} /\ IsConnected(g) /\ Order(g) = Size(g) + 1

\* the vertices renamed 0..n-1 in their order
Relabel(g) ==
    LET r(v) == Cardinality({u \in g.V : u < v})
    IN  [V |-> {r(v) : v \in g.V}, E |-> {{r(v) : v \in e} : e \in g.E}]

\* the number of proper colourings with the colours 1..k: the two ends of every
\* edge differ (a loop has no proper colouring)
Colourings(g, k) ==
    Cardinality({f \in [g.V -> 1..k] :
        \A e \in g.E : Cardinality({f[u] : u \in e}) = 2})

----------------------------------------------------------------------------
\* The inputs: the graphs on 0..n-1, n <= MaxN, with at most MaxLoops loops

Pairs(n) == {{a, b} : a \in 0..(n - 1), b \in 0..(n - 1)} \ {{a} : a \in 0..(n - 1)}

LoopSets(n) == {L \in SUBSET {{a} : a \in 0..(n - 1)} : Cardinality(L) <= MaxLoops}

Inputs ==
    UNION {{[V |-> 0..(n - 1), E |-> S \cup L] : S \in SUBSET Pairs(n), L \in LoopSets(n)}
           : n \in 0..MaxN}

\* what an allocated and never written int may hold
Garbage == {-1, 1}

----------------------------------------------------------------------------
\* Idle values of the locals

NoLoc == [bfs_reorder |-> << >>, parent |-> << >>, queue |-> << >>, bot |-> 0,
          v |-> -1, nbrs |-> {}, next_v |-> 0, chords |-> << >>]
NoTot == << >>
NoAsm == [i |-> 0, m |-> 0, coeffs |-> << >>]

\* arrays are functions on 0..n-1
Arr(n, x) == [i \in 0..(n - 1) |-> x]

nverts == Order(cur)
nedges == Size(cur)

\* lines 167-168: the length of chords1 and chords2
ChordCapacity == nedges - nverts + 1

----------------------------------------------------------------------------
\* chromatic_polynomial, algorithm 'C': the orchestrator (lines 139-148, 260)

\* return f from the running call: to the caller of the doctest, or into the
\* list of factors of the call that waits on line 145
Deliver(f, stk) ==
    IF stk = << >>
    THEN /\ c' = f
         /\ pc' = "call_py"
         /\ callstk' = stk
    ELSE /\ c' = c
         /\ pc' = "comp"
         /\ callstk' = [stk EXCEPT ![Len(stk)].f = Append(@, f)]

\* lines 159-185: relabel, allocate, initialise tot and the search from 0
StartBfs(g) ==
    \E garbage \in Garbage :
        LET h == RemoveLoops(Relabel(g))
            n == Order(h)
        IN  /\ cur' = h
            /\ loc' = [bfs_reorder |-> [i \in 0..(n - 1) |-> IF i = 0 THEN 0 ELSE -1],
                       parent |-> Arr(n, garbage),
                       queue |-> <<0>>,
                       bot |-> 0,
                       v |-> -1,
                       nbrs |-> {},
                       next_v |-> 1,
                       chords |-> << >>]
            /\ tot' = Arr(n + 1, 0)
            /\ live' = 0..n

\* the body of chromatic_polynomial(g) up to the search; stk is the call stack
\* of the caller
Dispatch(g, stk) ==
    IF Order(g) = 0 THEN
        Deliver(PolyOne, stk) /\ UNCHANGED <<cur, loc, tot, live>>
    ELSE IF HasLoops(g) THEN
        Deliver(PolyZero, stk) /\ UNCHANGED <<cur, loc, tot, live>>
    ELSE IF ~IsConnected(g) THEN
        /\ callstk' = Append(stk, [q |-> ConnectedComponentsSubgraphs(g), f |-> << >>])
        /\ pc' = "comp"
        /\ UNCHANGED <<c, cur, loc, tot, live>>
    ELSE IF IsTree(g) THEN
        Deliver(TreePoly(Order(g)), stk) /\ UNCHANGED <<cur, loc, tot, live>>
    ELSE
        /\ StartBfs(g)
        /\ pc' = "bfs"
        /\ callstk' = stk
        /\ c' = c

CallC ==
    /\ pc = "call_c"
    /\ Dispatch(G, callstk)
    /\ UNCHANGED <<G, p, err, frames, asm, D, Dedges, cache, stack, log>>

\* line 145: the next component
CompStep ==
    /\ pc = "comp"
    /\ callstk[Len(callstk)].q # << >>
    /\ Dispatch(Head(callstk[Len(callstk)].q),
                [callstk EXCEPT ![Len(callstk)].q = Tail(@)])
    /\ UNCHANGED <<G, p, err, frames, asm, D, Dedges, cache, stack, log>>

\* line 145: the product
CompDone ==
    /\ pc = "comp"
    /\ callstk[Len(callstk)].q = << >>
    /\ Deliver(PolyProd(callstk[Len(callstk)].f), SubSeq(callstk, 1, Len(callstk) - 1))
    /\ UNCHANGED <<G, p, err, cur, loc, frames, tot, live, asm, D, Dedges, cache, stack, log>>

----------------------------------------------------------------------------
\* The breadth first search and the chord list (lines 186-216)

\* lines 205-216: the chord at 0-based position i moves up to its place
RECURSIVE Bubble(_, _)
Bubble(ch, i) ==
    IF i > 0 THEN
        IF ch[i][1] > ch[i + 1][1] THEN ch
        ELSE IF ch[i][1] = ch[i + 1][1] /\ ch[i][2] > ch[i + 1][2] THEN ch
        ELSE Bubble(Swap(ch, i, i + 1), i - 1)
    ELSE ch

\* lines 198-216
InsertChord(ch, hi, lo) == Bubble(Append(ch, <<hi, lo>>), Len(ch))

\* lines 187-188
BfsDequeue ==
    /\ pc = "bfs"
    /\ loc.v = -1
    /\ Len(loc.queue) > loc.bot
    /\ LET w == loc.queue[loc.bot + 1]
       IN  loc' = [loc EXCEPT !.v = IF Neighbors(cur, w) = {} THEN -1 ELSE w,
                              !.bot = @ + 1,
                              !.nbrs = Neighbors(cur, w)]
    /\ UNCHANGED <<G, pc, c, p, err, callstk, cur, frames, tot, live, asm,
                   D, Dedges, cache, stack, log>>

\* lines 189-216: one neighbour u of v
BfsNeighbor ==
    /\ pc = "bfs"
    /\ loc.v # -1
    /\ \E u \in loc.nbrs :
        LET v == loc.v
            reo == loc.bfs_reorder
            rest == loc.nbrs \ {u}
            fin == IF rest = {} THEN -1 ELSE v
        IN  IF reo[u] = -1 THEN
                loc' = [loc EXCEPT !.bfs_reorder = [reo EXCEPT ![u] = loc.next_v],
                                   !.next_v = @ + 1,
                                   !.queue = Append(@, u),
                                   !.parent = [@ EXCEPT ![loc.next_v] = reo[v]],
                                   !.nbrs = rest,
                                   !.v = fin]
            ELSE IF reo[u] > reo[v] THEN
                loc' = [loc EXCEPT !.chords = InsertChord(@, reo[u], reo[v]),
                                   !.nbrs = rest,
                                   !.v = fin]
            ELSE
                loc' = [loc EXCEPT !.nbrs = rest, !.v = fin]
    /\ UNCHANGED <<G, pc, c, p, err, callstk, cur, frames, tot, live, asm,
                   D, Dedges, cache, stack, log>>

\* line 218: the call of contract_and_count
BfsDone ==
    /\ pc = "bfs"
    /\ loc.v = -1
    /\ Len(loc.queue) = loc.bot
    /\ pc' = "count"
    /\ frames' = <<[chords |-> loc.chords, nverts |-> nverts, i |-> 0]>>
    /\ UNCHANGED <<G, c, p, err, callstk, cur, loc, tot, live, asm,
                   D, Dedges, cache, stack, log>>

----------------------------------------------------------------------------
\* contract_and_count (lines 263-346)

\* lines 289-294, 303-308
ParentPair(x1, pz) == IF x1 > pz THEN <<x1, pz>> ELSE <<pz, x1>>

\* lines 283-300: the chords j.. that share z; the result is [ins, j, parent_checked]
RECURSIVE InsLoop(_, _, _, _, _, _, _)
InsLoop(ch, parent, z, x1, j, ins, parent_checked) ==
    IF j <= Len(ch) /\ ch[j][1] = z THEN
        LET xj == ch[j][2]
            hit == parent[z] > xj
            ins1 == IF hit /\ parent[x1] # parent[z]
                    THEN Append(ins, ParentPair(x1, parent[z]))
                    ELSE ins
            ins2 == IF parent[x1] # xj THEN Append(ins1, <<x1, xj>>) ELSE ins1
        IN  InsLoop(ch, parent, z, x1, j + 1, ins2, parent_checked \/ hit)
    ELSE [ins |-> ins, j |-> j, parent_checked |-> parent_checked]

\* InsList without lines 301-309: the pair {x1, parent[z]} is forgotten when no
\* chord has set parent_checked
InsListNoParent(ch, parent, i) ==
    LET r == InsLoop(ch, parent, ch[i][1], ch[i][2], i + 1, << >>, FALSE)
    IN  [ins |-> r.ins, j |-> r.j]

\* lines 278-309: the insert list of the chord at position i (1-based), and the
\* position j of the first chord that does not share z
InsList(ch, parent, i) ==
    LET z == ch[i][1]
        x1 == ch[i][2]
        r == InsLoop(ch, parent, z, x1, i + 1, << >>, FALSE)
    IN  IF ~r.parent_checked /\ parent[x1] # parent[z]
        THEN [ins |-> Append(r.ins, ParentPair(x1, parent[z])), j |-> r.j]
        ELSE [ins |-> r.ins, j |-> r.j]

\* c1 before c2 in the order of the list: hi descending, then lo descending
ChordGreater(c1, c2) == c1[1] > c2[1] \/ (c1[1] = c2[1] /\ c1[2] > c2[2])

\* Merge that copies both of two equal pairs
RECURSIVE MergeDup(_, _, _, _, _)
MergeDup(ch, j, ins, k, new) ==
    IF k <= Len(ins) /\ j <= Len(ch) THEN
        IF ChordGreater(ins[k], ch[j]) THEN MergeDup(ch, j, ins, k + 1, Append(new, ins[k]))
        ELSE MergeDup(ch, j + 1, ins, k, Append(new, ch[j]))
    ELSE IF j = Len(ch) + 1 THEN new \o SubSeq(ins, k, Len(ins))
    ELSE new \o SubSeq(ch, j, Len(ch))

\* lines 312-344
RECURSIVE Merge(_, _, _, _, _)
Merge(ch, j, ins, k, new) ==
    IF k <= Len(ins) /\ j <= Len(ch) THEN
        IF ChordGreater(ch[j], ins[k]) THEN Merge(ch, j + 1, ins, k, Append(new, ch[j]))
        ELSE IF ChordGreater(ins[k], ch[j]) THEN Merge(ch, j, ins, k + 1, Append(new, ins[k]))
        ELSE Merge(ch, j + 1, ins, k + 1, Append(new, ch[j]))
    ELSE IF j = Len(ch) + 1 THEN new \o SubSeq(ins, k, Len(ins))
    ELSE IF k = Len(ins) + 1 THEN new \o SubSeq(ch, j, Len(ch))
    ELSE new

\* lines 277-344: the chord list passed to the recursive call for chord i
Contract(ch, parent, i) ==
    LET r == InsList(ch, parent, i)
    IN  Merge(ch, r.j, r.ins, 1, << >>)

\* Callee with nverts + 1 for nverts - 1
CalleeUp(f, parent, i) ==
    [chords |-> Contract(f.chords, parent, i), nverts |-> f.nverts + 1, i |-> 0]

\* line 345: the frame of the recursive call for chord i of the frame f
Callee(f, parent, i) ==
    [chords |-> Contract(f.chords, parent, i), nverts |-> f.nverts - 1, i |-> 0]

\* StartAsm with m set to 1
StartAsmPlus ==
    /\ pc' = "asm"
    /\ asm' = [i |-> nverts, m |-> 1, coeffs |-> Arr(nverts + 1, 0)]

\* lines 223-226: contract_and_count has returned to chromatic_polynomial
StartAsm ==
    /\ pc' = "asm"
    /\ asm' = [i |-> nverts, m |-> -1, coeffs |-> Arr(nverts + 1, 0)]

\* a call returns (lines 267, 346): the caller's loop goes on
Return(fs) ==
    IF fs = << >>
    THEN frames' = fs /\ StartAsm
    ELSE /\ frames' = [fs EXCEPT ![Len(fs)].i = @ + 1]
         /\ UNCHANGED <<pc, asm>>

Top == frames[Len(frames)]
Callers == SubSeq(frames, 1, Len(frames) - 1)

\* lines 265-267
CountBase ==
    /\ pc = "count"
    /\ Len(Top.chords) = 0
    /\ tot' = [tot EXCEPT ![Top.nverts] = @ + 1]
    /\ Return(Callers)
    /\ UNCHANGED <<G, c, p, err, callstk, cur, loc, live, D, Dedges, cache, stack, log>>

\* lines 274-345: sig_check passes, chord i is contracted, the recursive call
CountIter ==
    /\ pc = "count"
    /\ Top.i < Len(Top.chords)
    /\ frames' = Append(frames, Callee(Top, loc.parent, Top.i + 1))
    /\ UNCHANGED <<G, pc, c, p, err, callstk, cur, loc, tot, live, asm,
                   D, Dedges, cache, stack, log>>

\* line 346
CountReturn ==
    /\ pc = "count"
    /\ Len(Top.chords) > 0
    /\ Top.i = Len(Top.chords)
    /\ tot' = [tot EXCEPT ![Top.nverts] = @ + 1]
    /\ Return(Callers)
    /\ UNCHANGED <<G, c, p, err, callstk, cur, loc, live, D, Dedges, cache, stack, log>>

\* lines 219-222: the handler clears tot[i] for i in range(nverts) and re-raises
Handler(e) ==
    /\ live' = live \ (0..(nverts - 1))
    /\ err' = e
    /\ pc' = "raised"
    /\ cur' = NoGraph
    /\ loc' = NoLoc
    /\ frames' = << >>
    /\ tot' = NoTot
    /\ callstk' = << >>

\* line 275: sig_check raises; lines 268-272: an allocation fails
Interrupt ==
    /\ pc = "count"
    /\ \/ Top.i < Len(Top.chords) /\ Handler("KeyboardInterrupt")
       \/ Top.i = 0 /\ Len(Top.chords) > 0 /\ Handler("MemoryError")
    /\ UNCHANGED <<G, c, p, asm, D, Dedges, cache, stack, log>>

----------------------------------------------------------------------------
\* The assembly of the coefficients (lines 223-260)

\* lines 237-244: the terms of tot[i]*m*x*(x-1)**(i-1) below degree i
RECURSIVE BinomLoop(_, _, _, _, _, _)
BinomLoop(coeffs, coeff, j, i, m, t) ==
    IF j < i THEN
        LET c1 == ((coeff * (j - i)) \div j) * m
        IN  BinomLoop([coeffs EXCEPT ![i - j] = @ + c1 * t], c1 * m, j + 1, i, m, t)
    ELSE coeffs

\* lines 229-244: the body of the loop for size i, on [i, m, coeffs]
AsmBody(a, t) ==
    IF t = 0 THEN [a EXCEPT !.i = @ - 1]
    ELSE LET m == -a.m
         IN  [i |-> a.i - 1,
              m |-> m,
              coeffs |-> BinomLoop([a.coeffs EXCEPT ![a.i] = @ + m * t], 1, 1, a.i, m, t)]

AsmStep ==
    /\ pc = "asm"
    /\ asm.i > 0
    /\ asm' = AsmBody(asm, tot[asm.i])
    /\ UNCHANGED <<G, pc, c, p, err, callstk, cur, loc, frames, tot, live,
                   D, Dedges, cache, stack, log>>

\* lines 245-260: f = R(coeffs_ZZ), everything is cleared, f is returned
AsmDone ==
    /\ pc = "asm"
    /\ asm.i = 0
    /\ Deliver(PolyNorm([k \in 1..(nverts + 1) |-> asm.coeffs[k - 1]]), callstk)
    /\ live' = {}
    /\ cur' = NoGraph
    /\ loc' = NoLoc
    /\ tot' = NoTot
    /\ asm' = NoAsm
    /\ UNCHANGED <<G, p, err, frames, D, Dedges, cache, stack, log>>

----------------------------------------------------------------------------
\* Graph operations of chromatic_polynomial_with_cache

\* the bijections of 0..k-1, for every k up to MaxN
Perms == [k \in 0..MaxN |->
            {f \in [0..(k - 1) -> 0..(k - 1)] :
                \A a \in 0..(k - 1) : \A b \in 0..(k - 1) : a # b => f[a] # f[b]}]

\* the weight of a set of edges on 0..k-1: the edge {a, b}, a < b, counts
\* 2^(b(b-1)/2 + a)
EdgeWeight(E, k) ==
    SeqSum([b \in 1..k |->
        SeqSum([a \in 1..k |->
            IF a < b /\ {a - 1, b - 1} \in E
            THEN Pow(2, ((b - 1) * (b - 2)) \div 2 + (a - 1))
            ELSE 0])])

Max(S) == CHOOSE x \in S : \A y \in S : x >= y

\* g.canonical_label(): of all the relabellings of g on 0..k-1 the one whose
\* edge set weighs most; isomorphic graphs get the same one, and the vertices
\* without edges get the least labels
CanonicalLabel(g) ==
    LET k == Order(g)
        h == Relabel(g)
        images == {{{f[u] : u \in e} : e \in h.E} : f \in Perms[k]}
        best == Max({EdgeWeight(S, k) : S \in images})
    IN  [V |-> 0..(k - 1), E |-> CHOOSE S \in images : EdgeWeight(S, k) = best]

\* line 434
Key(g) == CanonicalLabel(g).E

\* g.delete_edge(u, w)
DeleteEdge(g, u, w) == [g EXCEPT !.E = @ \ {{u, w}}]

\* MergeVertices left out: the edge is put back and g is not contracted
MergeVerticesNone(g, u, w) == g

\* g.merge_vertices([u, w]) and g.remove_multiple_edges(): w is merged into u
MergeVertices(g, u, w) ==
    [V |-> g.V \ {w},
     E |-> {e \in {{IF x = w THEN u ELSE x : x \in e} : e \in g.E \ {{u, w}}} :
              Cardinality(e) = 2}]

\* g.bridges()
Bridges(g) == {e \in g.E : Cardinality(e) = 2 /\ ~(e \subseteq Reach([g EXCEPT !.E = @ \ {e}], {Min(e)}))}

\* e comes before d in the order of the edges: by least end, then by greatest
EdgeBefore(e, d) == Min(e) < Min(d) \/ (Min(e) = Min(d) /\ Max(e) < Max(d))

\* lines 474-477: the edges the code may select, a bridge if there is one; the
\* model draws among the first MaxPick of them
Candidates(g) ==
    LET S == IF Bridges(g) # {} THEN Bridges(g) ELSE g.E
    IN  {e \in S : Cardinality({d \in S : EdgeBefore(d, e)}) < MaxPick}

\* D.add_vertex(), n times: the least integers that are not vertices of D
RECURSIVE NewVertices(_, _)
NewVertices(dom, n) ==
    IF n = 0 THEN << >>
    ELSE LET w == Min({i \in 0..Cardinality(dom) : i \notin dom})
         IN  <<w>> \o NewVertices(dom \cup {w}, n - 1)

Range(s) == {s[i] : i \in 1..Len(s)}

\* the values of the vertices of D
OfGraph(g) == [kind |-> "graph", val |-> g]
OfKey(key) == [kind |-> "key", val |-> key]
OfPoly(f) == [kind |-> "poly", val |-> f]

\* cache[key] = f
Store(ca, key, f) == [k \in DOMAIN ca \cup {key} |-> IF k = key THEN f ELSE ca[k]]

NeighborOut(v) == {w \in DOMAIN D : <<v, w>> \in Dedges}

\* D.delete_vertices(D.neighbor_out_iterator(v))
DeleteChildren(v) ==
    /\ Dedges' = {e \in Dedges : e[1] \notin NeighborOut(v) /\ e[2] \notin NeighborOut(v)}
    /\ D' = [x \in DOMAIN D \ NeighborOut(v) |->
                IF x = v THEN OfPoly(cache'[D[v].val]) ELSE D[x]]

STop == stack[Len(stack)]
SRest == SubSeq(stack, 1, Len(stack) - 1)

----------------------------------------------------------------------------
\* chromatic_polynomial_with_cache (lines 403-508)

\* lines 133-137 and 403-423
CallPython ==
    /\ pc = "call_py"
    /\ IF Order(G) = 0 THEN
           /\ p' = PolyOne
           /\ pc' = "done"
           /\ UNCHANGED <<D, stack>>
       ELSE IF HasLoops(G) THEN
           /\ p' = PolyZero
           /\ pc' = "done"
           /\ UNCHANGED <<D, stack>>
       ELSE
           /\ D' = [x \in {0} |-> OfGraph(Relabel(G))]
           /\ stack' = <<[firstseen |-> TRUE, v |-> 0, com |-> <<"_">>]>>
           /\ pc' = "py"
           /\ p' = p
    /\ UNCHANGED <<G, c, err, callstk, cur, loc, frames, tot, live, asm, Dedges, cache, log>>

\* Resolve without "cache[key] = D.get_vertex(v)"
ResolveNoCache(v, key, f) ==
    /\ D' = [D EXCEPT ![v] = OfPoly(f)]
    /\ stack' = SRest
    /\ UNCHANGED <<Dedges, cache>>

\* lines 438-444 and 457-461: g is resolved at once and cached
Resolve(v, key, f) ==
    /\ D' = [D EXCEPT ![v] = OfPoly(f)]
    /\ cache' = Store(cache, key, f)
    /\ stack' = SRest
    /\ UNCHANGED Dedges

\* lines 446-455
SpawnProduct(v, key, g) ==
    LET hs == ConnectedComponentsSubgraphs(g)
        ws == NewVertices(DOMAIN D, Len(hs))
    IN  /\ D' = [x \in DOMAIN D \cup Range(ws) |->
                    IF x = v THEN OfKey(key)
                    ELSE IF x \in DOMAIN D THEN D[x]
                    ELSE OfGraph(hs[CHOOSE i \in 1..Len(ws) : ws[i] = x])]
        /\ Dedges' = Dedges \cup {<<v, w>> : w \in Range(ws)}
        /\ stack' = SRest \o <<[firstseen |-> FALSE, v |-> v, com |-> <<"*">>]>>
                          \o [i \in 1..Len(ws) |->
                                [firstseen |-> TRUE, v |-> ws[i], com |-> <<"_">>]]
        /\ UNCHANGED cache

\* SpawnDifference with the continuation pushed after the children
SpawnDifferenceLast(v, key, g) ==
    \E e \in Candidates(g) :
        LET ws == NewVertices(DOMAIN D, 2)
        IN  /\ D' = [x \in DOMAIN D \cup {ws[1], ws[2]} |->
                        IF x = v THEN OfKey(key)
                        ELSE IF x = ws[1] THEN OfGraph(DeleteEdge(g, Min(e), Max(e)))
                        ELSE IF x = ws[2] THEN OfGraph(MergeVertices(g, Min(e), Max(e)))
                        ELSE D[x]]
            /\ Dedges' = Dedges \cup {<<v, ws[1]>>, <<v, ws[2]>>}
            /\ stack' = SRest \o <<[firstseen |-> TRUE, v |-> ws[1], com |-> <<"_">>],
                                   [firstseen |-> TRUE, v |-> ws[2], com |-> <<"_">>],
                                   [firstseen |-> FALSE, v |-> v, com |-> <<"-", ws[1], ws[2]>>]>>
            /\ UNCHANGED cache

\* lines 463-486
SpawnDifference(v, key, g) ==
    \E e \in Candidates(g) :
        LET u == Min(e)
            w == Max(e)
            ws == NewVertices(DOMAIN D, 2)
            a == ws[1]
            b == ws[2]
        IN  /\ D' = [x \in DOMAIN D \cup {a, b} |->
                        IF x = v THEN OfKey(key)
                        ELSE IF x = a THEN OfGraph(DeleteEdge(g, u, w))
                        ELSE IF x = b THEN OfGraph(MergeVertices(g, u, w))
                        ELSE D[x]]
            /\ Dedges' = Dedges \cup {<<v, a>>, <<v, b>>}
            /\ stack' = SRest \o <<[firstseen |-> FALSE, v |-> v, com |-> <<"-", a, b>>],
                                   [firstseen |-> TRUE, v |-> a, com |-> <<"_">>],
                                   [firstseen |-> TRUE, v |-> b, com |-> <<"_">>]>>
            /\ UNCHANGED cache

\* lines 432-486: the first visit of v
FirstVisit ==
    /\ pc = "py"
    /\ stack # << >>
    /\ STop.firstseen
    /\ LET v == STop.v
           g == D[v].val
           key == Key(g)
       IN  IF key \in DOMAIN cache THEN
               /\ D' = [D EXCEPT ![v] = OfPoly(cache[key])]
               /\ stack' = SRest
               /\ UNCHANGED <<Dedges, cache, log>>
           ELSE
               /\ log' = Append(log, g)
               /\ IF Order(g) = 0 THEN Resolve(v, key, PolyOne)
                  ELSE IF HasLoops(g) THEN Resolve(v, key, PolyZero)
                  ELSE IF ~IsConnected(g) THEN SpawnProduct(v, key, g)
                  ELSE IF Order(g) = Size(g) + 1 THEN Resolve(v, key, TreePoly(Order(g)))
                  ELSE SpawnDifference(v, key, g)
    /\ UNCHANGED <<G, pc, c, p, err, callstk, cur, loc, frames, tot, live, asm>>

\* the polynomials of the children of v, in the order of the vertices
RECURSIVE ChildPolys(_)
ChildPolys(ws) ==
    IF ws = {} THEN << >>
    ELSE <<D[Min(ws)].val>> \o ChildPolys(ws \ {Min(ws)})

\* lines 488-494
Product ==
    /\ pc = "py"
    /\ stack # << >>
    /\ ~STop.firstseen
    /\ STop.com[1] = "*"
    /\ cache' = Store(cache, D[STop.v].val, PolyProd(ChildPolys(NeighborOut(STop.v))))
    /\ DeleteChildren(STop.v)
    /\ stack' = SRest
    /\ UNCHANGED <<G, pc, c, p, err, callstk, cur, loc, frames, tot, live, asm, log>>

\* Difference with the two children exchanged
DifferenceSwapped ==
    /\ pc = "py"
    /\ stack # << >>
    /\ ~STop.firstseen
    /\ STop.com[1] = "-"
    /\ cache' = Store(cache, D[STop.v].val, PolySub(D[STop.com[3]].val, D[STop.com[2]].val))
    /\ DeleteChildren(STop.v)
    /\ stack' = SRest
    /\ UNCHANGED <<G, pc, c, p, err, callstk, cur, loc, frames, tot, live, asm, log>>

\* lines 496-502
Difference ==
    /\ pc = "py"
    /\ stack # << >>
    /\ ~STop.firstseen
    /\ STop.com[1] = "-"
    /\ cache' = Store(cache, D[STop.v].val, PolySub(D[STop.com[2]].val, D[STop.com[3]].val))
    /\ DeleteChildren(STop.v)
    /\ stack' = SRest
    /\ UNCHANGED <<G, pc, c, p, err, callstk, cur, loc, frames, tot, live, asm, log>>

\* lines 428 and 508: the stack is empty
PyReturn ==
    /\ pc = "py"
    /\ stack = << >>
    /\ p' = D[0].val
    /\ pc' = "done"
    /\ UNCHANGED <<G, c, err, callstk, cur, loc, frames, tot, live, asm,
                   D, Dedges, cache, stack, log>>

----------------------------------------------------------------------------
Init ==
    /\ G \in Inputs
    /\ pc = "call_c"
    /\ c = PolyZero
    /\ p = PolyZero
    /\ err = "none"
    /\ callstk = << >>
    /\ cur = NoGraph
    /\ loc = NoLoc
    /\ frames = << >>
    /\ tot = NoTot
    /\ live = {}
    /\ asm = NoAsm
    /\ D = << >>
    /\ Dedges = {}
    /\ cache = << >>
    /\ stack = << >>
    /\ log = << >>

Next ==
    \/ CallC
    \/ CompStep
    \/ CompDone
    \/ BfsDequeue
    \/ BfsNeighbor
    \/ BfsDone
    \/ CountBase
    \/ CountIter
    \/ CountReturn
    \/ Interrupt
    \/ AsmStep
    \/ AsmDone
    \/ CallPython
    \/ FirstVisit
    \/ Product
    \/ Difference
    \/ PyReturn

Spec == Init /\ [][Next]_vars

----------------------------------------------------------------------------
\* Properties

\* C1: when chromatic_polynomial(G) with the direct algorithm has returned c, c
\* evaluated at k is the number of proper k-colourings of G, for every k from
\* 0 to MaxColours.
C1_Direct ==
    pc \in {"call_py", "py", "done"} =>
        \A k \in 0..MaxColours : PolyEval(c, k) = Colourings(G, k)

\* a connected graph with a cycle has gone through the search, the counting
\* and the assembly
C1_Witness ==
    /\ pc = "call_py"
    /\ Order(G) = 4
    /\ Size(G) = 5
    /\ c = <<0, -4, 8, -5, 1>>

\* C2: the direct and the cached algorithm return the same polynomial.
C2_Agree == pc = "done" => c = p

\* both have run on a connected graph with a cycle
C2_Witness ==
    /\ pc = "done"
    /\ Len(log) >= 5
    /\ IsConnected(G)
    /\ p = c
    /\ Len(p) = 5

\* g and h are isomorphic
Isomorphic(g, h) ==
    /\ Order(g) = Order(h)
    /\ Size(g) = Size(h)
    /\ \E f \in Perms[Order(g)] :
          {{f[u] : u \in e} : e \in Relabel(g).E} = Relabel(h).E

\* C3: no two of the subgraphs resolved by a branch other than the cache hit
\* are isomorphic.
C3_Once ==
    \A i \in 1..Len(log) : \A j \in 1..Len(log) :
        i < j => ~Isomorphic(log[i], log[j])

\* a pending subgraph on three or more vertices, isomorphic to one that was
\* computed, is about to be visited: its key is in the cache
C3_Witness ==
    /\ pc = "py"
    /\ stack # << >>
    /\ STop.firstseen
    /\ Order(D[STop.v].val) >= 3
    /\ Key(D[STop.v].val) \in DOMAIN cache
    /\ \E i \in 1..Len(log) : Isomorphic(log[i], D[STop.v].val)

\* C4: a step never removes a key of the cache nor changes the polynomial
\* stored under it.
C4_Permanent ==
    [][\A k \in DOMAIN cache : k \in DOMAIN cache' /\ cache'[k] = cache[k]]_vars

\* C5: when an error of contract_and_count has reached the caller, every
\* entry of tot has been cleared.
C5_Released == pc = "raised" => live = {}

\* C6: when a continuation is on top of the stack, its vertex holds its key
\* and every child holds a polynomial; a vertex that holds a polynomial has no
\* children left, and its polynomial is in the cache.
C6_Resolved ==
    pc = "py" =>
        /\ (stack # << >> /\ ~STop.firstseen) =>
              /\ D[STop.v].kind = "key"
              /\ NeighborOut(STop.v) # {}
              /\ \A w \in NeighborOut(STop.v) : D[w].kind = "poly"
        /\ \A v \in DOMAIN D :
              D[v].kind = "poly" =>
                  /\ NeighborOut(v) = {}
                  /\ \E k \in DOMAIN cache : cache[k] = D[v].val

\* the continuation of a difference is popped and one child was a cache hit
C6_Witness ==
    /\ pc = "py"
    /\ stack # << >>
    /\ ~STop.firstseen
    /\ STop.com[1] = "-"
    /\ Len(log) >= 4
    /\ \A w \in NeighborOut(STop.v) : D[w].kind = "poly"

\* the chord list ch is strictly sorted, hi descending then lo descending, and
\* hi > lo in every chord
StrictlySorted(ch) ==
    /\ \A i \in 1..(Len(ch) - 1) : ChordGreater(ch[i], ch[i + 1])
    /\ \A i \in 1..Len(ch) : ch[i][1] > ch[i][2]

\* C7: the chord list of the search, the chord list of every call of
\* contract_and_count, and for every chord of the running call the insert
\* list and the merged list, are strictly sorted.
C7_Sorted ==
    /\ pc = "bfs" => StrictlySorted(loc.chords)
    /\ pc = "count" =>
          /\ \A d \in 1..Len(frames) : StrictlySorted(frames[d].chords)
          /\ \A i \in 1..Len(Top.chords) :
                /\ StrictlySorted(InsList(Top.chords, loc.parent, i).ins)
                /\ StrictlySorted(Contract(Top.chords, loc.parent, i))

\* a call whose chord list is the merge of an insert list and of remaining
\* chords with a pair in common
C7_Witness ==
    /\ pc = "count"
    /\ Top.i < Len(Top.chords)
    /\ LET r == InsList(Top.chords, loc.parent, Top.i + 1)
       IN  /\ r.ins # << >>
           /\ r.j <= Len(Top.chords)
           /\ Len(Contract(Top.chords, loc.parent, Top.i + 1))
                < Len(r.ins) + Len(Top.chords) - r.j + 1

\* (-1)^e
Sign(e) == IF e % 2 = 0 THEN 1 ELSE -1

\* C8: in the assembly the sign applied at a size i with tot[i] # 0 is
\* (-1)^(nverts - i), and the sizes with tot[i] # 0 are nverts, nverts - 1, ...
\* without a gap.
C8_Sign ==
    pc = "asm" =>
        /\ (asm.i < nverts /\ tot[asm.i + 1] # 0) => asm.m = Sign(nverts - (asm.i + 1))
        /\ tot[nverts] # 0
        /\ \A i \in 1..nverts : tot[i] = 0 => \A j \in 0..i : tot[j] = 0

\* the sign -1 has been applied at size nverts - 1, +1 at nverts - 2
C8_Witness ==
    /\ pc = "asm"
    /\ asm.i = nverts - 3
    /\ tot[nverts - 2] # 0
    /\ asm.m = 1

\* the vertices plus the edges of g
Measure(g) == Order(g) + Size(g)

\* a bound on the steps the stack still asks for: 3^Measure(g) for a subgraph g
\* awaiting its first visit, 1 for a continuation
Variant ==
    SeqSum([i \in 1..Len(stack) |->
        IF stack[i].firstseen THEN Pow(3, Measure(D[stack[i].v].val)) ELSE 1])

\* the loop of lines 428-508 can take its next step
CanStep ==
    \/ stack = << >> /\ DOMAIN D = {0} /\ D[0].kind = "poly"
    \/ /\ stack # << >>
       /\ STop.firstseen
       /\ D[STop.v].kind = "graph"
       /\ \/ Key(D[STop.v].val) \in DOMAIN cache
          \/ ~IsConnected(D[STop.v].val)
          \/ Order(D[STop.v].val) = Size(D[STop.v].val) + 1
          \/ Candidates(D[STop.v].val) # {}
    \/ /\ stack # << >>
       /\ ~STop.firstseen
       /\ D[STop.v].kind = "key"
       /\ \A w \in NeighborOut(STop.v) : D[w].kind = "poly"

\* C9: every subgraph put into D at a first visit has fewer vertices plus
\* edges than the subgraph visited; every step of the loop lowers Variant, a
\* natural number, and until the stack is empty a step can be taken, so the
\* loop ends; it ends with the polynomial of vertex 0 returned.
C9_Terminates ==
    /\ [](pc = "py" => CanStep /\ Variant >= 0)
    /\ [][pc = "py" =>
            /\ \A w \in DOMAIN D' \ DOMAIN D :
                  Measure(D'[w].val) < Measure(D[STop.v].val)
            /\ pc' = "py" => Variant' < Variant
            /\ pc' = "done" => (stack = << >> /\ p' = D[0].val)]_vars

\* a run with several first visits has ended
C9_Witness ==
    /\ pc = "done"
    /\ stack = << >>
    /\ Len(log) >= 5
    /\ DOMAIN D = {0}

\* C10: the chord list of the search fits chords1 and chords2; in every call
\* of contract_and_count nverts indexes tot, and for every chord of the
\* running call the insert list and the merged list are no longer than its
\* chord list.
C10_Bounds ==
    /\ pc = "bfs" =>
          /\ Len(loc.chords) <= ChordCapacity
          /\ Len(loc.queue) <= nverts
    /\ pc = "count" =>
          /\ \A d \in 1..Len(frames) : frames[d].nverts \in 0..nverts
          /\ \A i \in 1..Len(Top.chords) :
                /\ Len(InsList(Top.chords, loc.parent, i).ins) <= Len(Top.chords)
                /\ Len(Contract(Top.chords, loc.parent, i)) <= Len(Top.chords)

\* a chord whose insert list fills ins_list
C10_Witness ==
    /\ pc = "count"
    /\ Top.i < Len(Top.chords)
    /\ Len(InsList(Top.chords, loc.parent, Top.i + 1).ins) = Len(Top.chords)

====
